---- MODULE Spec2Model ----
(***************************************************************************)
(* Model of src/main.py (arc-export): the pipeline                         *)
(*   read_json -> convert_json_to_html                                     *)
(*                  (get_spaces, convert_to_bookmarks,                     *)
(*                   convert_bookmarks_to_html)                            *)
(*             -> write_html                                               *)
(* JSON values are encoded as follows.  A dict is a record; a key that is  *)
(* missing from a dict holds Absent; JSON null is None.  A list is a       *)
(* sequence.  List entries that may be either a dict or a scalar are       *)
(* records with an isDict flag.  An exception is the name of its class.    *)
(***************************************************************************)
EXTENDS Integers, Sequences, FiniteSets, TLC

VARIABLES pc, exc, json_file, json_data, target, spaces_arg, spaces, items,
          bookmarks, html_content, out_file

vars == <<pc, exc, json_file, json_data, target, spaces_arg, spaces, items,
          bookmarks, html_content, out_file>>

(***************************************************************************)
(* Bounds of the input documents.                                          *)
(***************************************************************************)
MaxContainers == 3
MaxSpaces == 3
MaxItems == 3
MaxEntries == 3
RecursionLimit == 6

(***************************************************************************)
(* Python values.                                                          *)
(***************************************************************************)
Absent == "<absent>"
None == "<None>"

Ok(v) == [exc |-> "", val |-> v]
Raise(e) == [exc |-> e, val |-> <<>>]

\* dict.get(key, default)
Get(v, default) == IF v = Absent THEN default ELSE v

\* truth value of a string-or-None operand of `or`
Truthy(v) == v # None /\ v # ""

\* str(x) on a list entry: a string is itself, the number 7 is written "#7"
\* in the document and prints as "7", a marker dict prints as its repr
PyStr(e) ==
  IF e.isDict
    THEN (IF e.pinned /\ e.unpinned THEN "{'pinned': {}, 'unpinned': {}}"
          ELSE IF e.pinned THEN "{'pinned': {}}"
          ELSE IF e.unpinned THEN "{'unpinned': {}}"
          ELSE "{}")
    ELSE IF e.val = "#7" THEN "7" ELSE e.val

\* f-string interpolation {x} of a string or None
Fmt(v) == IF v = None THEN "None" ELSE v

\* d[k] = v on an insertion-ordered dict, kept as a sequence of entries
\* DictSet that keeps the value a key already has
DictSet_keep_first(d, k, v) ==
  IF \E i \in DOMAIN d : d[i].key = k THEN d
  ELSE Append(d, [key |-> k, val |-> v])

\* DictSet that moves a key that is set again to the end
DictSet_move_to_end(d, k, v) ==
  Append(SelectSeq(d, LAMBDA e : e.key # k), [key |-> k, val |-> v])

DictSet(d, k, v) ==
  IF \E i \in DOMAIN d : d[i].key = k
    THEN [i \in DOMAIN d |-> IF d[i].key = k THEN [key |-> k, val |-> v] ELSE d[i]]
    ELSE Append(d, [key |-> k, val |-> v])

Keys(d) == {d[i].key : i \in DOMAIN d}
Lookup(d, k) == d[CHOOSE i \in DOMAIN d : d[i].key = k].val

(***************************************************************************)
(* get_spaces (lines 355-384).                                             *)
(***************************************************************************)
\* `"title" in space`: a key of a dict, a substring of a string
HasTitle(space) == IF space.isDict THEN space.title # Absent ELSE space.hasTitleText

\* lines 363-367: the title of the space at hand and the counter after it;
\* space["title"] on a string raises TypeError
SpaceTitle(space, n) ==
  IF HasTitle(space)
    THEN (IF space.isDict THEN Ok([title |-> space.title, n |-> n])
          ELSE Raise("TypeError"))
    ELSE Ok([title |-> "Space " \o ToString(n), n |-> n + 1])

\* lines 373-378: the loop over newContainerIDs; containers[i + 1] past the
\* end raises IndexError
RECURSIVE scan_containers(_, _, _, _)
\* scan_containers with a marker at the last index skipped instead of read past
scan_containers_guarded(containers, i, title, names) ==
  IF i > Len(containers) THEN Ok(names)
  ELSE IF containers[i].isDict /\ containers[i].pinned /\ i + 1 <= Len(containers)
    THEN scan_containers(containers, i + 1, title,
           [names EXCEPT !.pinned =
              DictSet(names.pinned, PyStr(containers[i + 1]), title)])
  ELSE IF containers[i].isDict /\ containers[i].unpinned /\ i + 1 <= Len(containers)
    THEN scan_containers(containers, i + 1, title,
           [names EXCEPT !.unpinned =
              DictSet(names.unpinned, PyStr(containers[i + 1]), title)])
  ELSE scan_containers(containers, i + 1, title, names)

scan_containers(containers, i, title, names) ==
  IF i > Len(containers) THEN Ok(names)
  ELSE IF containers[i].isDict /\ containers[i].pinned
    THEN IF i + 1 > Len(containers) THEN Raise("IndexError")
         ELSE scan_containers(containers, i + 1, title,
                [names EXCEPT !.pinned =
                   DictSet(names.pinned, PyStr(containers[i + 1]), title)])
  ELSE IF containers[i].isDict /\ containers[i].unpinned
    THEN IF i + 1 > Len(containers) THEN Raise("IndexError")
         ELSE scan_containers(containers, i + 1, title,
                [names EXCEPT !.unpinned =
                   DictSet(names.unpinned, PyStr(containers[i + 1]), title)])
  ELSE scan_containers(containers, i + 1, title, names)

\* lines 362-380: the loop over the spaces list
RECURSIVE spaces_loop(_, _, _, _)
spaces_loop(spaces_list, k, n, names) ==
  IF k > Len(spaces_list) THEN Ok(names)
  ELSE LET space == spaces_list[k]
           t == SpaceTitle(space, n)
       IN IF t.exc # "" THEN t
          ELSE IF ~space.isDict THEN spaces_loop(spaces_list, k + 1, t.val.n, names)
          ELSE IF ~space.hasNewContainerIDs THEN Raise("KeyError")
          ELSE LET r == scan_containers(space.newContainerIDs, 1, t.val.title, names)
               IN IF r.exc # "" THEN r
                  ELSE spaces_loop(spaces_list, k + 1, t.val.n, r.val)

get_spaces(spaces_list) ==
  spaces_loop(spaces_list, 1, 1, [pinned |-> <<>>, unpinned |-> <<>>])

(***************************************************************************)
(* convert_to_bookmarks (lines 387-428).  A node of the forest carries,    *)
(* besides the keys of the Python dict, the field src: the identifier it   *)
(* was built from (the item's id, or the space_id of a top-level folder).  *)
(* src is bookkeeping for the properties and is never read by the code.    *)
(***************************************************************************)
\* line 392: the comprehension that indexes the dict entries by item["id"]
RECURSIVE index_loop(_, _, _)
index_loop(items_list, k, d) ==
  IF k > Len(items_list) THEN Ok(d)
  ELSE IF ~items_list[k].isDict THEN index_loop(items_list, k + 1, d)
  ELSE IF items_list[k].id = Absent THEN Raise("KeyError")
  ELSE index_loop(items_list, k + 1, DictSet(d, items_list[k].id, items_list[k]))

item_dict_of(items_list) == index_loop(items_list, 1, <<>>)

\* line 399
HasTab(item) == item.hasData /\ item.hasTab

\* lines 400-407
BookmarkNode(item_id, item) ==
  [type |-> "bookmark",
   title |-> (IF Truthy(Get(item.title, None))
                THEN Get(item.title, None)
                ELSE Get(item.savedTitle, "")),
   url |-> Get(item.savedURL, ""),
   src |-> item_id]

\* lines 410-414 and 419-423
FolderNode(src_id, title, children) ==
  [type |-> "folder", title |-> title, children |-> children, src |-> src_id]

\* lines 394-416; depth is the number of nested activations, and one more
\* than the interpreter allows raises RecursionError
RECURSIVE recurse_into_children(_, _, _)
RECURSIVE children_loop(_, _, _, _, _)
\* children_loop with an untitled item without a tab kept as a folder
children_loop_keep_untitled(item_dict, parent_id, depth, k, children) ==
  IF k > Len(item_dict) THEN Ok(children)
  ELSE LET item_id == item_dict[k].key
           item == item_dict[k].val
       IN IF Get(item.parentID, None) # parent_id
            THEN children_loop(item_dict, parent_id, depth, k + 1, children)
          ELSE IF HasTab(item)
            THEN children_loop(item_dict, parent_id, depth, k + 1,
                               Append(children, BookmarkNode(item_id, item)))
          ELSE LET sub == recurse_into_children(item_dict, item_id, depth + 1)
               IN IF sub.exc # "" THEN sub
                  ELSE children_loop(item_dict, parent_id, depth, k + 1,
                         Append(children,
                                FolderNode(item_id, Get(item.title, ""), sub.val)))

\* children_loop that does not descend into an item that is its own parent
children_loop_skip_self(item_dict, parent_id, depth, k, children) ==
  IF k > Len(item_dict) THEN Ok(children)
  ELSE LET item_id == item_dict[k].key
           item == item_dict[k].val
       IN IF Get(item.parentID, None) # parent_id \/ item_id = parent_id
            THEN children_loop(item_dict, parent_id, depth, k + 1, children)
          ELSE IF HasTab(item)
            THEN children_loop(item_dict, parent_id, depth, k + 1,
                               Append(children, BookmarkNode(item_id, item)))
          ELSE IF item.title # Absent
            THEN LET sub == recurse_into_children(item_dict, item_id, depth + 1)
                 IN IF sub.exc # "" THEN sub
                    ELSE children_loop(item_dict, parent_id, depth, k + 1,
                           Append(children, FolderNode(item_id, item.title, sub.val)))
          ELSE children_loop(item_dict, parent_id, depth, k + 1, children)

recurse_into_children(item_dict, parent_id, depth) ==
  IF depth > RecursionLimit THEN Raise("RecursionError")
  ELSE children_loop(item_dict, parent_id, depth, 1, <<>>)

children_loop(item_dict, parent_id, depth, k, children) ==
  IF k > Len(item_dict) THEN Ok(children)
  ELSE LET item_id == item_dict[k].key
           item == item_dict[k].val
       IN IF Get(item.parentID, None) # parent_id
            THEN children_loop(item_dict, parent_id, depth, k + 1, children)
          ELSE IF HasTab(item)
            THEN children_loop(item_dict, parent_id, depth, k + 1,
                               Append(children, BookmarkNode(item_id, item)))
          ELSE IF item.title # Absent
            THEN LET sub == recurse_into_children(item_dict, item_id, depth + 1)
                 IN IF sub.exc # "" THEN sub
                    ELSE children_loop(item_dict, parent_id, depth, k + 1,
                           Append(children, FolderNode(item_id, item.title, sub.val)))
          ELSE children_loop(item_dict, parent_id, depth, k + 1, children)

\* lines 418-424: one folder per entry of spaces["pinned"]
RECURSIVE pinned_loop(_, _, _, _)
pinned_loop(item_dict, pinned, k, forest) ==
  IF k > Len(pinned) THEN Ok(forest)
  ELSE LET sub == recurse_into_children(item_dict, pinned[k].key, 1)
       IN IF sub.exc # "" THEN sub
          ELSE pinned_loop(item_dict, pinned, k + 1,
                 Append(forest, FolderNode(pinned[k].key, pinned[k].val, sub.val)))

convert_to_bookmarks(spaces_names, items_list) ==
  LET d == item_dict_of(items_list)
      f == IF d.exc # "" THEN d ELSE pinned_loop(d.val, spaces_names.pinned, 1, <<>>)
  IN IF f.exc # "" THEN f ELSE Ok([bookmarks |-> f.val])

(***************************************************************************)
(* convert_bookmarks_to_html (lines 431-457).  The text is the sequence of *)
(* its lines (the pieces between "\n"); a line is the number of leading    *)
(* tab characters written by {indent} and the pieces that follow them.     *)
(* src names the node a line was written for ("" for the fixed lines).     *)
(***************************************************************************)
Line(indent, body, src) == [indent |-> indent, body |-> body, src |-> src]

\* lines 434-438
Header ==
  << Line(0, <<"<!DOCTYPE NETSCAPE-Bookmark-file-1>">>, ""),
     Line(0, <<"<META HTTP-EQUIV=\"Content-Type\" CONTENT=\"text/html; charset=UTF-8\">">>, ""),
     Line(0, <<"<TITLE>Bookmarks</TITLE>">>, ""),
     Line(0, <<"<H1>Bookmarks</H1>">>, ""),
     Line(0, <<"<DL><p>">>, "") >>

\* lines 440-450
RECURSIVE traverse_dict(_, _, _)
RECURSIVE traverse_loop(_, _, _, _)
traverse_dict(d, html_str, level) == traverse_loop(d, html_str, level, 1)

\* traverse_loop that does not close the list of a folder
traverse_loop_unclosed(d, html_str, level, k) ==
  IF k > Len(d) THEN html_str
  ELSE LET item == d[k] IN
    IF item.type = "folder"
      THEN LET opened == html_str \o
                  << Line(level, <<"<DT><H3>", Fmt(item.title), "</H3>">>, item.src),
                     Line(level, <<"<DL><p>">>, "") >>
               inner == traverse_dict(item.children, opened, level + 1)
           IN traverse_loop(d, inner, level, k + 1)
    ELSE IF item.type = "bookmark"
      THEN traverse_loop(d,
             Append(html_str,
               Line(level, <<"<DT><A HREF=\"", Fmt(item.url), "\">", Fmt(item.title), "</A>">>,
                    item.src)),
             level, k + 1)
    ELSE traverse_loop(d, html_str, level, k + 1)

\* traverse_loop with the children of a folder written at the folder's own level
traverse_loop_same_level(d, html_str, level, k) ==
  IF k > Len(d) THEN html_str
  ELSE LET item == d[k] IN
    IF item.type = "folder"
      THEN LET opened == html_str \o
                  << Line(level, <<"<DT><H3>", Fmt(item.title), "</H3>">>, item.src),
                     Line(level, <<"<DL><p>">>, "") >>
               inner == traverse_dict(item.children, opened, level)
           IN traverse_loop(d, Append(inner, Line(level, <<"</DL><p>">>, "")), level, k + 1)
    ELSE IF item.type = "bookmark"
      THEN traverse_loop(d,
             Append(html_str,
               Line(level, <<"<DT><A HREF=\"", Fmt(item.url), "\">", Fmt(item.title), "</A>">>,
                    item.src)),
             level, k + 1)
    ELSE traverse_loop(d, html_str, level, k + 1)

traverse_loop(d, html_str, level, k) ==
  IF k > Len(d) THEN html_str
  ELSE LET item == d[k] IN
    IF item.type = "folder"
      THEN LET opened == html_str \o
                  << Line(level, <<"<DT><H3>", Fmt(item.title), "</H3>">>, item.src),
                     Line(level, <<"<DL><p>">>, "") >>
               inner == traverse_dict(item.children, opened, level + 1)
           IN traverse_loop(d, Append(inner, Line(level, <<"</DL><p>">>, "")), level, k + 1)
    ELSE IF item.type = "bookmark"
      THEN traverse_loop(d,
             Append(html_str,
               Line(level, <<"<DT><A HREF=\"", Fmt(item.url), "\">", Fmt(item.title), "</A>">>,
                    item.src)),
             level, k + 1)
    ELSE traverse_loop(d, html_str, level, k + 1)

convert_bookmarks_to_html(bookmarks_dict) ==
  Append(traverse_dict(bookmarks_dict.bookmarks, Header, 1), Line(0, <<"</DL><p>">>, ""))

(***************************************************************************)
(* The documents the program is run on.                                    *)
(***************************************************************************)
\* entries of a newContainerIDs list
Str(v) == [isDict |-> FALSE, pinned |-> FALSE, unpinned |-> FALSE, val |-> v]
Marker(p, u) == [isDict |-> TRUE, pinned |-> p, unpinned |-> u, val |-> ""]
P == Marker(TRUE, FALSE)
U == Marker(FALSE, TRUE)

\* entries of a spaces list: a string (with or without "title" in it) or a dict
SpaceStr(hasTitleText) ==
  [isDict |-> FALSE, hasTitleText |-> hasTitleText, title |-> Absent,
   hasNewContainerIDs |-> FALSE, newContainerIDs |-> <<>>]
SpaceDict(title, ids) ==
  [isDict |-> TRUE, hasTitleText |-> FALSE, title |-> title,
   hasNewContainerIDs |-> TRUE, newContainerIDs |-> ids]
SpaceNoIDs(title) ==
  [isDict |-> TRUE, hasTitleText |-> FALSE, title |-> title,
   hasNewContainerIDs |-> FALSE, newContainerIDs |-> <<>>]

\* entries of an items list: a string or a dict
ItemStr ==
  [isDict |-> FALSE, id |-> Absent, parentID |-> Absent, title |-> Absent,
   hasData |-> FALSE, hasTab |-> FALSE, savedTitle |-> Absent, savedURL |-> Absent]
Item(id, parentID, title, hasData, hasTab, savedTitle, savedURL) ==
  [isDict |-> TRUE, id |-> id, parentID |-> parentID, title |-> title,
   hasData |-> hasData, hasTab |-> hasTab,
   savedTitle |-> savedTitle, savedURL |-> savedURL]
Folder(id, parentID) == Item(id, parentID, "F-" \o id, FALSE, FALSE, Absent, Absent)
Tab(id, parentID) == Item(id, parentID, Absent, TRUE, TRUE, "S-" \o id, "u-" \o id)
Bare(id, parentID) == Item(id, parentID, Absent, TRUE, FALSE, Absent, Absent)

\* entries of sidebar.containers
Container(global, hasSpaces, spaces_list, hasItems, items_list) ==
  [global |-> global, hasSpaces |-> hasSpaces, spaces |-> spaces_list,
   hasItems |-> hasItems, items |-> items_list]
GlobalMarker == Container(TRUE, FALSE, <<>>, FALSE, <<>>)
Data(spaces_list, items_list) == Container(FALSE, TRUE, spaces_list, TRUE, items_list)

ItemsChain == << ItemStr, Bare("r", None), ItemStr, Folder("a", "r"), Tab("b", "a") >>
ItemsFlat == << Tab("a", "r"), Tab("b", "r") >>
SpacesWork == << SpaceStr(FALSE), SpaceDict("Work", <<P, Str("r"), U, Str("u")>>) >>
SpacesHome == << SpaceDict("Home", <<P, Str("r")>>) >>

File(containers) == [exists |-> TRUE, containers |-> containers]
NoFile == [exists |-> FALSE, containers |-> <<>>]

\* documents that vary the container list
ContainerShapes ==
  { GlobalMarker,
    Container(TRUE, TRUE, SpacesWork, TRUE, ItemsChain),
    Data(SpacesWork, ItemsChain),
    Data(SpacesHome, ItemsFlat),
    Container(FALSE, FALSE, <<>>, TRUE, ItemsFlat) }
ContainerDoc(file) ==
  \E n \in 0..MaxContainers : \E c \in [1..n -> ContainerShapes] : file = File(c)

\* documents that vary the sub-entries of one space
IdEntries == {P, U, Marker(TRUE, TRUE), Str("r"), Str("a"), Str("#7")}
EntryDoc(file) ==
  \E t \in {Absent, "Work"} : \E n \in 0..MaxEntries : \E ids \in [1..n -> IdEntries] :
    file = File(<<GlobalMarker, Data(<<SpaceDict(t, ids)>>, ItemsChain)>>)

\* documents that vary the spaces list
SpaceShapes ==
  { SpaceStr(FALSE), SpaceStr(TRUE), SpaceNoIDs("Work"),
    SpaceDict(Absent, <<P, Str("r")>>),
    SpaceDict(Absent, <<P, Str("a"), U, Str("b")>>),
    SpaceDict("Work", <<P, Str("r"), U, Str("b")>>),
    SpaceDict("Home", <<P, Str("a")>>),
    SpaceDict(Absent, <<U, Str("r")>>) }
SpaceDoc(file) ==
  \E n \in 0..MaxSpaces : \E s \in [1..n -> SpaceShapes] :
    file = File(<<GlobalMarker, Data(s, ItemsChain)>>)

\* documents that vary the items list
ItemShapes ==
  { ItemStr,
    Folder("a", "r"), Tab("a", "r"), Bare("a", "r"),
    Folder("b", "r"), Tab("b", "r"),
    Folder("b", "a"), Tab("b", "a"), Bare("b", "a"),
    Folder("a", "a"),
    Folder("r", "a"),
    Folder("r", "r"), Bare("r", "r") }
ItemDoc(file) ==
  \E n \in 0..MaxItems : \E i \in [1..n -> ItemShapes] :
    file = File(<<GlobalMarker, Data(SpacesWork, i)>>)

\* documents that vary the optional fields of one item
OptStr(v) == {Absent, None, "", v}
FieldShapes ==
  {Item(id, "r", t, d[1], d[2], st, su) :
     id \in {"a"}, t \in OptStr("T"), d \in {<<TRUE, TRUE>>},
     st \in OptStr("S"), su \in OptStr("u")}
  \cup {Item(id, "r", t, d[1], d[2], Absent, Absent) :
     id \in {"a", Absent}, t \in OptStr("T"), d \in {<<FALSE, FALSE>>, <<TRUE, FALSE>>}}
FieldDoc(file) ==
  \E i \in FieldShapes : file = File(<<GlobalMarker, Data(SpacesWork, <<i>>)>>)

Doc(file) ==
  \/ file = NoFile
  \/ ContainerDoc(file)
  \/ EntryDoc(file)
  \/ SpaceDoc(file)
  \/ ItemDoc(file)
  \/ FieldDoc(file)

(***************************************************************************)
(* main (lines 109-112) and the calls of convert_json_to_html (339-352).   *)
(* pc is the call main is at; exc is the exception raised there ("" while  *)
(* none is): nothing catches it, so main ends with it.  target holds the   *)
(* Python (0-based) index, so containers[target] is Containers[target + 1].*)
(***************************************************************************)
Init ==
  /\ pc = "read_json"
  /\ exc = ""
  /\ Doc(json_file)
  /\ json_data = [containers |-> <<>>]
  /\ target = 0
  /\ spaces_arg = <<>>
  /\ spaces = [pinned |-> <<>>, unpinned |-> <<>>]
  /\ items = <<>>
  /\ bookmarks = [bookmarks |-> <<>>]
  /\ html_content = <<>>
  /\ out_file = [written |-> FALSE, content |-> <<>>]

\* lines 286-336
ReadJson ==
  /\ pc = "read_json" /\ exc = ""
  /\ IF json_file.exists
       THEN /\ json_data' = [containers |-> json_file.containers]
            /\ pc' = "convert_json_to_html"
            /\ exc' = exc
       ELSE /\ exc' = "FileNotFoundError"
            /\ UNCHANGED <<json_data, pc>>
  /\ UNCHANGED <<json_file, target, spaces_arg, spaces, items, bookmarks,
                 html_content, out_file>>

\* line 342: next(i + 1 for i, c in enumerate(containers) if "global" in c)
Globals(containers) == {g \in DOMAIN containers : containers[g].global}
FirstGlobal(containers) ==
  CHOOSE g \in Globals(containers) : \A h \in Globals(containers) : g <= h
\* the index of the "global" container itself: i in place of i + 1
TargetOf_same(containers) == FirstGlobal(containers) - 1

TargetOf(containers) == (FirstGlobal(containers) - 1) + 1

\* lines 340-344
LocateGlobal ==
  /\ pc = "convert_json_to_html" /\ exc = ""
  /\ IF Globals(json_data.containers) = {}
       THEN /\ exc' = "ValueError"
            /\ UNCHANGED <<target, pc>>
       ELSE /\ target' = TargetOf(json_data.containers)
            /\ pc' = "get_spaces"
            /\ exc' = exc
  /\ UNCHANGED <<json_file, json_data, spaces_arg, spaces, items, bookmarks,
                 html_content, out_file>>

\* line 346
CallGetSpaces ==
  /\ pc = "get_spaces" /\ exc = ""
  /\ LET containers == json_data.containers IN
     IF target + 1 > Len(containers)
       THEN exc' = "IndexError" /\ UNCHANGED <<spaces_arg, spaces, pc>>
     ELSE IF ~containers[target + 1].hasSpaces
       THEN exc' = "KeyError" /\ UNCHANGED <<spaces_arg, spaces, pc>>
     ELSE LET r == get_spaces(containers[target + 1].spaces) IN
          /\ spaces_arg' = containers[target + 1].spaces
          /\ IF r.exc # ""
               THEN exc' = r.exc /\ UNCHANGED <<spaces, pc>>
               ELSE spaces' = r.val /\ pc' = "convert_to_bookmarks" /\ exc' = exc
  /\ UNCHANGED <<json_file, json_data, target, items, bookmarks,
                 html_content, out_file>>

\* lines 347-349
CallConvertToBookmarks ==
  /\ pc = "convert_to_bookmarks" /\ exc = ""
  /\ LET containers == json_data.containers IN
     IF ~containers[target + 1].hasItems
       THEN exc' = "KeyError" /\ UNCHANGED <<items, bookmarks, pc>>
     ELSE LET r == convert_to_bookmarks(spaces, containers[target + 1].items) IN
          /\ items' = containers[target + 1].items
          /\ IF r.exc # ""
               THEN exc' = r.exc /\ UNCHANGED <<bookmarks, pc>>
               ELSE bookmarks' = r.val /\ pc' = "convert_bookmarks_to_html"
                    /\ exc' = exc
  /\ UNCHANGED <<json_file, json_data, target, spaces_arg, spaces,
                 html_content, out_file>>

\* lines 350-352 and 110
CallConvertBookmarksToHtml ==
  /\ pc = "convert_bookmarks_to_html" /\ exc = ""
  /\ html_content' = convert_bookmarks_to_html(bookmarks)
  /\ pc' = "write_html"
  /\ UNCHANGED <<exc, json_file, json_data, target, spaces_arg, spaces, items,
                 bookmarks, out_file>>

\* lines 111-112 and 460-472
WriteHtml ==
  /\ pc = "write_html" /\ exc = ""
  /\ out_file' = [written |-> TRUE, content |-> html_content]
  /\ pc' = "done"
  /\ UNCHANGED <<exc, json_file, json_data, target, spaces_arg, spaces, items,
                 bookmarks, html_content>>

Next ==
  \/ ReadJson
  \/ LocateGlobal
  \/ CallGetSpaces
  \/ CallConvertToBookmarks
  \/ CallConvertBookmarksToHtml
  \/ WriteHtml

Spec == Init /\ [][Next]_vars

(***************************************************************************)
(* Properties.                                                             *)
(***************************************************************************)
Located == pc \notin {"read_json", "convert_json_to_html"}
SpacesPassed ==
  pc \in {"convert_to_bookmarks", "convert_bookmarks_to_html", "write_html", "done"}
ItemsPassed == pc \in {"convert_bookmarks_to_html", "write_html", "done"}
\* main has returned or has ended with an exception
Finished == pc = "done" \/ exc # ""

IsMarker(e) == e.isDict /\ (e.pinned \/ e.unpinned)

\* some dict space of the list ends its newContainerIDs with a marker
MarkerLast(spaces_list) ==
  \E k \in DOMAIN spaces_list :
    /\ spaces_list[k].isDict
    /\ spaces_list[k].hasNewContainerIDs
    /\ Len(spaces_list[k].newContainerIDs) > 0
    /\ IsMarker(spaces_list[k].newContainerIDs[Len(spaces_list[k].newContainerIDs)])

NoGlobal(containers) == \A g \in DOMAIN containers : ~containers[g].global

\* the spaces list convert_json_to_html selects has a marker with nothing after it
SelectedMarkerLast(containers) ==
  /\ ~NoGlobal(containers)
  /\ TargetOf(containers) + 1 <= Len(containers)
  /\ containers[TargetOf(containers) + 1].hasSpaces
  /\ MarkerLast(containers[TargetOf(containers) + 1].spaces)

SchemaError(file) ==
  file.exists /\ (NoGlobal(file.containers) \/ SelectedMarkerLast(file.containers))

\* C1: on a document with a schema error (no container holds "global", or a
\* space of the selected container ends its newContainerIDs with a pinned or
\* unpinned marker) main never gets past the conversion, ends with an
\* exception (ValueError when no container holds "global"), and writes nothing.
C1_SchemaErrorAborts ==
  SchemaError(json_file) =>
    /\ ~out_file.written
    /\ pc \in {"read_json", "convert_json_to_html", "get_spaces"}
    /\ (Finished => exc \in {"ValueError", "IndexError", "TypeError", "KeyError"})
    /\ (Finished /\ NoGlobal(json_file.containers) => exc = "ValueError")

\* C1 witness: a selected space ends with a marker and get_spaces has raised
\* IndexError with nothing written
C1_Witness ==
  /\ SelectedMarkerLast(json_file.containers)
  /\ pc = "get_spaces"
  /\ exc = "IndexError"
  /\ ~out_file.written

\* C2 as stated: whenever some container holds "global", get_spaces and
\* convert_to_bookmarks receive the spaces and items of the first container
\* that holds it, also when that container is the last of the list.
C2_GlobalContainerSelected ==
  LET c == json_data.containers IN
  (Located /\ ~NoGlobal(c)) =>
    /\ ~(pc = "get_spaces" /\ exc = "IndexError" /\ FirstGlobal(c) = Len(c))
    /\ (SpacesPassed => spaces_arg = c[FirstGlobal(c)].spaces)
    /\ (ItemsPassed => items = c[FirstGlobal(c)].items)

\* C2 amended: get_spaces and convert_to_bookmarks receive the spaces and
\* items of the container that follows the first container holding "global";
\* when that container is the last of the list the conversion stops at
\* get_spaces with IndexError and nothing is passed on.
C2_FollowingContainerSelected ==
  LET c == json_data.containers IN
  (Located /\ ~NoGlobal(c)) =>
    /\ target = FirstGlobal(c)
    /\ (SpacesPassed => /\ FirstGlobal(c) < Len(c)
                        /\ spaces_arg = c[FirstGlobal(c) + 1].spaces)
    /\ (ItemsPassed => items = c[FirstGlobal(c) + 1].items)
    /\ (FirstGlobal(c) = Len(c) =>
          /\ pc = "get_spaces"
          /\ (Finished => exc = "IndexError")
          /\ spaces_arg = <<>>)

\* C2 witness: the container holding "global" has spaces of its own, and the
\* run ended after reading those of the container that follows it
C2_Witness ==
  LET c == json_data.containers IN
  /\ pc = "done"
  /\ ~NoGlobal(c)
  /\ c[FirstGlobal(c)].hasSpaces
  /\ c[FirstGlobal(c)].spaces # c[FirstGlobal(c) + 1].spaces
  /\ spaces_arg = c[FirstGlobal(c) + 1].spaces
  /\ items = c[FirstGlobal(c) + 1].items

\* the positions of a space's sub-entries that record a pinned (an unpinned)
\* root, and the keys they record
PinnedAt(space) ==
  {i \in 1..(Len(space.newContainerIDs) - 1) :
     space.newContainerIDs[i].isDict /\ space.newContainerIDs[i].pinned}
UnpinnedAt(space) ==
  {i \in 1..(Len(space.newContainerIDs) - 1) :
     /\ space.newContainerIDs[i].isDict
     /\ ~space.newContainerIDs[i].pinned
     /\ space.newContainerIDs[i].unpinned}
PinnedKeys(space) ==
  IF space.isDict THEN {PyStr(space.newContainerIDs[i + 1]) : i \in PinnedAt(space)}
  ELSE {}
UnpinnedKeys(space) ==
  IF space.isDict THEN {PyStr(space.newContainerIDs[i + 1]) : i \in UnpinnedAt(space)}
  ELSE {}
Max(S) == CHOOSE x \in S : \A y \in S : y <= x
Min(S) == CHOOSE x \in S : \A y \in S : x <= y
LastPinnedWriter(spaces_list, key) ==
  Max({j \in DOMAIN spaces_list : key \in PinnedKeys(spaces_list[j])})
LastUnpinnedWriter(spaces_list, key) ==
  Max({j \in DOMAIN spaces_list : key \in UnpinnedKeys(spaces_list[j])})

\* the title C3 gives the space at position j: its own, or "Space k" when it
\* is the k-th untitled space of the list
UntitledSpaces(spaces_list) ==
  {i \in DOMAIN spaces_list : spaces_list[i].isDict /\ spaces_list[i].title = Absent}
NumberedTitle(spaces_list, j) ==
  IF spaces_list[j].title # Absent THEN spaces_list[j].title
  ELSE "Space " \o ToString(Cardinality({i \in UntitledSpaces(spaces_list) : i <= j}))

\* C3 as stated: a titled space keeps its title and the k-th untitled space,
\* counted over the untitled spaces only, is named "Space k": every title
\* get_spaces records is that of the last space that recorded the identifier.
C3_UntitledSpacesNumbered ==
  SpacesPassed =>
    /\ \A key \in Keys(spaces.pinned) :
         Lookup(spaces.pinned, key) =
           NumberedTitle(spaces_arg, LastPinnedWriter(spaces_arg, key))
    /\ \A key \in Keys(spaces.unpinned) :
         Lookup(spaces.unpinned, key) =
           NumberedTitle(spaces_arg, LastUnpinnedWriter(spaces_arg, key))

\* the nodes of a forest in document order, each with its nesting level
\* (top-level folders at level 1) and the src of the folder that holds it
NodeInfo(node, level, parent) ==
  [type |-> node.type, src |-> node.src, title |-> node.title,
   url |-> (IF node.type = "bookmark" THEN node.url ELSE Absent),
   level |-> level, parent |-> parent,
   kids |-> (IF node.type = "folder"
               THEN [c \in DOMAIN node.children |-> node.children[c].src]
               ELSE <<>>)]
RECURSIVE Flat(_, _, _)
Flat(forest, level, parent) ==
  IF forest = <<>> THEN <<>>
  ELSE LET node == Head(forest) IN
       <<NodeInfo(node, level, parent)>>
         \o (IF node.type = "folder" THEN Flat(node.children, level + 1, node.src)
             ELSE <<>>)
         \o Flat(Tail(forest), level, parent)
Nodes == Flat(bookmarks.bookmarks, 1, "")

\* the index convert_to_bookmarks builds over the items it was given
Index == item_dict_of(items).val
Indexed(id) == id \in Keys(Index)
ItemOf(id) == Lookup(Index, id)

IsString(v) == v # None /\ v # Absent
Present(v) == v # Absent /\ v # None /\ v # ""

\* C4 as stated: a bookmark's title is the item's title if present and
\* non-empty, else the tab's savedTitle, else ""; its url is the tab's
\* savedURL, else ""; both are strings whatever fields are absent, empty or null.
C4_BookmarkFallback ==
  ItemsPassed =>
    \A i \in DOMAIN Nodes :
      (Nodes[i].type = "bookmark" /\ Nodes[i].level > 1) =>
        LET item == ItemOf(Nodes[i].src) IN
        /\ Nodes[i].title =
             (IF Present(item.title) THEN item.title
              ELSE IF IsString(item.savedTitle) THEN item.savedTitle
              ELSE "")
        /\ Nodes[i].url = (IF IsString(item.savedURL) THEN item.savedURL ELSE "")
        /\ IsString(Nodes[i].title)
        /\ IsString(Nodes[i].url)

\* the parentID an identifier's item refers to, and the identifier k steps up
\* the parentID chain (None where the chain has ended)
Parent(id) == IF Indexed(id) THEN Get(ItemOf(id).parentID, None) ELSE None
RECURSIVE ParentIter(_, _)
ParentIter(id, k) == IF k = 0 THEN id ELSE Parent(ParentIter(id, k - 1))

IsBookmarkItem(id) == Indexed(id) /\ HasTab(ItemOf(id))
IsFolderItem(id) == Indexed(id) /\ ~HasTab(ItemOf(id)) /\ ItemOf(id).title # Absent
IsUntitledBare(id) == Indexed(id) /\ ~HasTab(ItemOf(id)) /\ ItemOf(id).title = Absent

\* the item with this identifier is a node of the forest (below a space folder)
Emitted(id) == \E i \in DOMAIN Nodes : Nodes[i].level > 1 /\ Nodes[i].src = id

PinnedRoot(id) == id \in Keys(spaces.pinned)

\* C5 as stated: an item with neither a tab nor a title is no node of the
\* forest, and neither is any item whose parentID chain passes through one.
C5_UntitledBareDropsSubtree ==
  ItemsPassed =>
    \A id \in Keys(Index) :
      /\ IsUntitledBare(id) => ~Emitted(id)
      /\ \A k \in 1..Len(Index) : IsUntitledBare(ParentIter(id, k)) => ~Emitted(id)

\* C5 amended: an item with neither a tab nor a title is no node of the
\* forest, and an item whose parentID chain passes through one is absent
\* unless the chain has reached a pinned root identifier by then.
C5_UntitledBareDropsSubtreeBelowRoots ==
  ItemsPassed =>
    \A id \in Keys(Index) :
      /\ IsUntitledBare(id) => ~Emitted(id)
      /\ \A k \in 1..Len(Index) :
           (/\ IsUntitledBare(ParentIter(id, k))
            /\ \A j \in 1..k : ~PinnedRoot(ParentIter(id, j)))
           => ~Emitted(id)

\* C5 witness: a bookmark item below an untitled, tab-less item that hangs
\* below a pinned root is missing from the finished forest
C5_Witness ==
  /\ pc = "done"
  /\ \E id \in Keys(Index) :
       /\ IsBookmarkItem(id)
       /\ IsUntitledBare(Parent(id))
       /\ ~PinnedRoot(Parent(id))
       /\ PinnedRoot(ParentIter(id, 2))
       /\ ~Emitted(id)

\* the lines of the text written for nodes
IsNodeLine(l) == l.body[1] \in {"<DT><H3>", "<DT><A HREF=\""}
NodeLines == SelectSeq(html_content, IsNodeLine)
Serialized == pc \in {"write_html", "done"}

\* the identifier of the space folder that holds the i-th node
RootOf(i) == Nodes[Max({j \in 1..i : Nodes[j].level = 1})].src

\* C6: the node lines of the text are the nodes of the forest in order, each
\* indented by as many tabs as its nesting level (space folders at level 1,
\* a child one deeper than its folder); a node at level n is n - 1 parentID
\* steps away from the pinned root identifier of its space folder, and no fewer.
C6_IndentIsChainDepth ==
  Serialized =>
    /\ Len(NodeLines) = Len(Nodes)
    /\ \A i \in DOMAIN Nodes :
         /\ NodeLines[i].src = Nodes[i].src
         /\ NodeLines[i].indent = Nodes[i].level
         /\ Nodes[i].level >= 1
         /\ Nodes[i].level = 1 => PinnedRoot(Nodes[i].src)
         /\ Nodes[i].level > 1 =>
              /\ ParentIter(Nodes[i].src, Nodes[i].level - 1) = RootOf(i)
              /\ Parent(Nodes[i].src) = Nodes[i].parent
              /\ \A k \in 1..(Nodes[i].level - 2) :
                   ParentIter(Nodes[i].src, k) # RootOf(i)

\* C6 witness: a node two parentID steps below its pinned root is written
\* with three tabs
C6_Witness ==
  /\ pc = "done"
  /\ \E i \in DOMAIN Nodes :
       /\ Nodes[i].level = 3
       /\ NodeLines[i].indent = 3
       /\ ParentIter(Nodes[i].src, 2) = RootOf(i)

\* the title get_spaces gives the space at position j: its own, or "Space n"
\* with n one more than the number of entries before it that hold no "title"
EffectiveTitle(spaces_list, j) ==
  IF spaces_list[j].title # Absent THEN spaces_list[j].title
  ELSE "Space " \o
       ToString(1 + Cardinality({i \in 1..(j - 1) : ~HasTitle(spaces_list[i])}))

PinnedSpaces(spaces_list) ==
  {j \in DOMAIN spaces_list : PinnedKeys(spaces_list[j]) # {}}
AllPinnedKeys(spaces_list) ==
  UNION {PinnedKeys(spaces_list[j]) : j \in DOMAIN spaces_list}

\* where a pinned identifier is first recorded: the space, then the marker
FirstSpaceOf(spaces_list, key) ==
  Min({j \in DOMAIN spaces_list : key \in PinnedKeys(spaces_list[j])})
FirstMarkerOf(space, key) ==
  Min({i \in PinnedAt(space) : PyStr(space.newContainerIDs[i + 1]) = key})
RecordedBefore(spaces_list, k1, k2) ==
  LET j1 == FirstSpaceOf(spaces_list, k1)
      j2 == FirstSpaceOf(spaces_list, k2)
  IN \/ j1 < j2
     \/ /\ j1 = j2
        /\ FirstMarkerOf(spaces_list[j1], k1) < FirstMarkerOf(spaces_list[j1], k2)

Forest == bookmarks.bookmarks

\* C7 as stated (read for spaces that record one pinned root each): the
\* forest holds exactly one top-level folder per pinned space, titled with
\* that space's effective title, also when several spaces reuse one pinned
\* identifier.
C7_OneFolderPerPinnedSpace ==
  (/\ ItemsPassed
   /\ \A j \in PinnedSpaces(spaces_arg) : Cardinality(PinnedKeys(spaces_arg[j])) = 1)
  =>
    /\ Len(Forest) = Cardinality(PinnedSpaces(spaces_arg))
    /\ \A j \in PinnedSpaces(spaces_arg) :
         Cardinality({f \in DOMAIN Forest :
                        /\ Forest[f].src \in PinnedKeys(spaces_arg[j])
                        /\ Forest[f].title = EffectiveTitle(spaces_arg, j)}) = 1

\* C7 amended: the forest holds exactly one top-level folder per distinct
\* pinned identifier, in the order the identifiers were first recorded,
\* titled with the effective title of the last space that recorded the
\* identifier, its children the expansion of the identifier (empty when no
\* item has it as parentID); an identifier recorded only as an unpinned root
\* has no folder.
C7_OneFolderPerPinnedIdentifier ==
  ItemsPassed =>
    /\ Len(Forest) = Cardinality(AllPinnedKeys(spaces_arg))
    /\ Len(Forest) = Len(spaces.pinned)
    /\ \A f \in DOMAIN Forest :
         /\ Forest[f].type = "folder"
         /\ Forest[f].src = spaces.pinned[f].key
         /\ Forest[f].src \in AllPinnedKeys(spaces_arg)
         /\ Forest[f].title =
              EffectiveTitle(spaces_arg, LastPinnedWriter(spaces_arg, Forest[f].src))
         /\ Forest[f].children = recurse_into_children(Index, Forest[f].src, 1).val
         /\ (\A id \in Keys(Index) : Parent(id) # Forest[f].src)
              => Forest[f].children = <<>>
         /\ \A g \in DOMAIN Forest :
              f < g => RecordedBefore(spaces_arg, Forest[f].src, Forest[g].src)

\* C7 witness: two spaces with different titles record the same pinned
\* identifier and the one folder carries the later title
C7_Witness ==
  /\ pc = "done"
  /\ \E j1, j2 \in PinnedSpaces(spaces_arg) :
       /\ j1 < j2
       /\ PinnedKeys(spaces_arg[j1]) = PinnedKeys(spaces_arg[j2])
       /\ EffectiveTitle(spaces_arg, j1) # EffectiveTitle(spaces_arg, j2)
       /\ Len(Forest) = 1
       /\ Forest[1].title = EffectiveTitle(spaces_arg, j2)
       /\ Forest[1].children # <<>>

\* the identifiers recurse_into_children is activated on: the pinned roots
\* and every folder item whose parentID is one of them
RECURSIVE CalledFrom(_)
CalledFrom(R) ==
  LET more == R \cup {id \in Keys(Index) : IsFolderItem(id) /\ Parent(id) \in R}
  IN IF more = R THEN R ELSE CalledFrom(more)
Called == CalledFrom(Keys(spaces.pinned))

\* id is a folder item reached again k parentID steps up, through folder items
OnFolderCycle(id) ==
  /\ IsFolderItem(id)
  /\ \E k \in 1..Len(Index) :
       /\ ParentIter(id, k) = id
       /\ \A j \in 1..(k - 1) : IsFolderItem(ParentIter(id, j))

\* a cycle of parentID references among folder items can be reached from a
\* pinned root
CycleReachable == \E id \in Keys(Index) : OnFolderCycle(id) /\ Parent(id) \in Called

SelfParent == \E id \in Keys(Index) : IsFolderItem(id) /\ Parent(id) = id

\* the folder chains that hang below a pinned root: k folder items, each the
\* parentID of the one before, the last with a pinned root as parentID
ChainLengths ==
  {k \in 1..Len(Index) :
     \E id \in Keys(Index) :
       /\ \A j \in 0..(k - 1) : IsFolderItem(ParentIter(id, j))
       /\ PinnedRoot(ParentIter(id, k))}
LongestFolderChain == IF ChainLengths = {} THEN 0 ELSE Max(ChainLengths)

\* the deepest activation of recurse_into_children behind a returned forest:
\* one for each space folder, one more for each folder nested in it
FolderLevels == {Nodes[i].level : i \in {j \in DOMAIN Nodes : Nodes[j].type = "folder"}}
RecursionDepth == IF FolderLevels = {} THEN 0 ELSE Max(FolderLevels)

Overflowed == pc = "convert_to_bookmarks" /\ exc = "RecursionError"

\* C8: convert_to_bookmarks returns a forest exactly when no cycle of folder
\* items is reachable from a pinned root, with at most one activation for the
\* root plus one per folder of the longest chain below it; when such a cycle
\* is reachable (an item that is its own parent included) the recursion has
\* no guard, runs until the interpreter stops it, and no forest is returned.
C8_RecursionGuardedOnlyByInput ==
  /\ ItemsPassed =>
       /\ ~CycleReachable
       /\ RecursionDepth <= 1 + LongestFolderChain
       /\ RecursionDepth <= RecursionLimit
  /\ Overflowed => CycleReachable
  /\ (pc = "convert_to_bookmarks" /\ Finished) => exc \in {"RecursionError", "KeyError"}
  /\ (pc = "convert_to_bookmarks" /\ exc = "KeyError") =>
       \/ ~json_data.containers[target + 1].hasItems
       \/ \E k \in DOMAIN items : items[k].isDict /\ items[k].id = Absent

\* C8 witness: a folder item that is its own parent was reached and the
\* conversion ended in RecursionError
C8_Witness ==
  /\ Overflowed
  /\ SelfParent
  /\ CycleReachable
  /\ ~out_file.written

IsOpen(l) == l.body = <<"<DL><p>">>
IsClose(l) == l.body = <<"</DL><p>">>
IsFolderLine(l) == l.body[1] = "<DT><H3>"
Opens(text, n) == Cardinality({i \in 1..n : IsOpen(text[i])})
Closes(text, n) == Cardinality({i \in 1..n : IsClose(text[i])})
FolderCount == Cardinality({i \in DOMAIN Nodes : Nodes[i].type = "folder"})

\* the first line after an opening line that closes a list at its indentation
ClosingOf(text, i) ==
  Min({j \in (i + 1)..Len(text) : IsClose(text[j]) /\ text[j].indent = text[i].indent})

Occurrences(id) == {k \in DOMAIN items : items[k].isDict /\ items[k].id = id}
FirstPos(id) == Min(Occurrences(id))
LastItem(id) == items[Max(Occurrences(id))]
Classified(item) == HasTab(item) \/ item.title # Absent

\* C10: below every folder the children stand in the order in which their
\* identifiers first occur in the items list (entries that are no dicts do
\* not count), one child per identifier whose last occurrence names the
\* folder as parentID and is a bookmark or a folder, built from that last
\* occurrence; the text is the serialization of that forest.
C10_SiblingsInFirstOccurrenceOrder ==
  /\ ItemsPassed =>
       \A i \in DOMAIN Nodes :
         /\ Nodes[i].type = "folder" =>
              /\ \A x, y \in DOMAIN Nodes[i].kids :
                   x < y => FirstPos(Nodes[i].kids[x]) < FirstPos(Nodes[i].kids[y])
              /\ {Nodes[i].kids[x] : x \in DOMAIN Nodes[i].kids} =
                   {items[k].id : k \in
                      {m \in DOMAIN items :
                         /\ items[m].isDict
                         /\ Classified(LastItem(items[m].id))
                         /\ Get(LastItem(items[m].id).parentID, None) = Nodes[i].src}}
         /\ Nodes[i].level > 1 =>
              LET item == LastItem(Nodes[i].src) IN
              /\ Nodes[i].type = (IF HasTab(item) THEN "bookmark" ELSE "folder")
              /\ HasTab(item) =>
                   /\ Nodes[i].title = BookmarkNode(Nodes[i].src, item).title
                   /\ Nodes[i].url = BookmarkNode(Nodes[i].src, item).url
              /\ ~HasTab(item) => Nodes[i].title = item.title
  /\ Serialized =>
       /\ Len(NodeLines) = Len(Nodes)
       /\ \A i \in DOMAIN Nodes : NodeLines[i].src = Nodes[i].src

\* C10 witness: an identifier occurs twice with another sibling's first
\* occurrence in between, and stands first among the two children
C10_Witness ==
  /\ pc = "done"
  /\ \E i \in DOMAIN Nodes :
       /\ Len(Nodes[i].kids) = 2
       /\ Cardinality(Occurrences(Nodes[i].kids[1])) = 2
       /\ FirstPos(Nodes[i].kids[1]) < FirstPos(Nodes[i].kids[2])
       /\ FirstPos(Nodes[i].kids[2]) < Max(Occurrences(Nodes[i].kids[1]))
       /\ items[FirstPos(Nodes[i].kids[1])] # LastItem(Nodes[i].kids[1])

====
